---- MODULE Spec2Model ----
(***************************************************************************)
(* psycopg3/errors.py: the DBAPI exception hierarchy, class_for_state and  *)
(* error_from_result.                                                      *)
(*                                                                         *)
(* A behaviour starts from one PGresult of a failed operation and applies  *)
(* class_for_state to its SQLSTATE field and error_from_result to it.      *)
(*                                                                         *)
(* Python Optional[T] values are modelled as sets with at most one         *)
(* element: None is {} and a present value v is {v}.  bytes and argument   *)
(* tuples are sequences.                                                    *)
(***************************************************************************)
EXTENDS Naturals, Sequences, FiniteSets, TLC

VARIABLES result, cls, exc

vars == <<result, cls, exc>>

\* ------------------------------------------------------------------ bounds
\* How many characters of Alphabet the enumerated SQLSTATE codes draw from.
AlphaSize == 3

\* ------------------------------------------------------------ Optional[T]
None == {}

Some(v) == {v}

The(opt) == CHOOSE v \in opt : TRUE

\* ------------------------------------------------------- class hierarchy
\* The direct base of every exception class of the module.
BasesBroken ==
    [c \in {"Warning", "Error", "InterfaceError", "DatabaseError", "DataError",
            "OperationalError", "IntegrityError", "InternalError",
            "ProgrammingError", "NotSupportedError"} |->
        CASE c = "Warning"           -> "Exception"
          [] c = "Error"             -> "Exception"
          [] c = "InterfaceError"    -> "DatabaseError"
          [] c = "DatabaseError"     -> "Error"
          [] OTHER                   -> "DatabaseError"]

Bases ==
    [c \in {"Warning", "Error", "InterfaceError", "DatabaseError", "DataError",
            "OperationalError", "IntegrityError", "InternalError",
            "ProgrammingError", "NotSupportedError"} |->
        CASE c = "Warning"           -> "Exception"
          [] c = "Error"             -> "Exception"
          [] c = "InterfaceError"    -> "Error"
          [] c = "DatabaseError"     -> "Error"
          [] c = "DataError"         -> "DatabaseError"
          [] c = "OperationalError"  -> "DatabaseError"
          [] c = "IntegrityError"    -> "DatabaseError"
          [] c = "InternalError"     -> "DatabaseError"
          [] c = "ProgrammingError"  -> "DatabaseError"
          [] c = "NotSupportedError" -> "DatabaseError"]

\* The exception classes the module defines.
Classes == DOMAIN Bases

RECURSIVE issubclass(_, _)
\* Python's issubclass: walk the chain of bases from c up to Exception.
issubclass(c, base) ==
    IF c = base THEN TRUE
    ELSE IF c \in DOMAIN Bases THEN issubclass(Bases[c], base)
    ELSE FALSE

\* ------------------------------------------------------------ PGresult
Alphabet ==
    <<"0", "1", "2", "3", "4", "5", "6", "7", "8", "9",
      "A", "B", "C", "D", "E", "F", "G", "H", "I", "J", "K", "L", "M",
      "N", "O", "P", "Q", "R", "S", "T", "U", "V", "W", "X", "Y", "Z">>

Chars == {Alphabet[i] : i \in 1..AlphaSize}

\* Codes the server documentation names, one per class the text discusses.
NamedCodes ==
    { <<"2", "3", "5", "0", "5">>,    \* unique_violation
      <<"4", "2", "6", "0", "1">>,    \* syntax_error
      <<"0", "8", "0", "0", "6">>,    \* connection_failure
      <<"0", "1", "0", "0", "4">>,    \* string_data_right_truncation
      <<"2", "2", "0", "1", "2">>,    \* division_by_zero
      <<"0", "A", "0", "0", "0">>,    \* feature_not_supported
      <<"4", "0", "0", "0", "1">>,    \* serialization_failure
      <<"9", "9", "X", "Y", "Z">> }   \* no such class

SqlStates ==
    NamedCodes \cup
    { <<a, b, c, d, e>> : a \in Chars, b \in Chars, c \in Chars,
                          d \in Chars, e \in Chars }

Messages ==
    { "connection pool exhausted",
      "duplicate key value violates unique constraint" }

Severities == {"ERROR", "FATAL"}

Details == {"Key (id)=(1) already exists."}

\* The diagnostic fields of a failed result; every field but the severity
\* may be missing.
PGresults ==
    [ sqlstate : {None} \cup {Some(s) : s \in SqlStates},
      message_primary : {None} \cup {Some(m) : m \in Messages},
      severity : Severities,
      message_detail : {None} \cup {Some(d) : d \in Details} ]

\* PGresult.error_field(DiagnosticField.SQLSTATE)
error_field_SQLSTATE(res) == res.sqlstate

\* The text used when the result carries no message.
NoMessageText == ""

\* pq.error_message(result)
error_message(res) ==
    IF res.message_primary = None THEN NoMessageText
    ELSE The(res.message_primary)

\* ------------------------------------------------------------ errors.py
\* Error.__init__(self, *args, pgresult=None)
Error__init__(c, args, pgresult) ==
    [cls |-> c, args |-> args, dict |-> [pgresult |-> pgresult]]

\* Exception(*args): what Warning inherits; no pgresult attribute.
Exception__init__(c, args) ==
    [cls |-> c, args |-> args, dict |-> <<>>]

\* c(*args, **kwargs) for the object c that class_for_state returned.
Call(c, args, pgresult) ==
    IF issubclass(c, "Error")
    THEN [raised |-> FALSE, value |-> Error__init__(c, args, pgresult)]
    ELSE IF c \in Classes /\ pgresult = None
    THEN [raised |-> FALSE, value |-> Exception__init__(c, args)]
    ELSE [raised |-> TRUE,  value |-> Exception__init__("TypeError", <<>>)]

\* A table lookup that yields None for a state it does not know.
class_for_state_lookup(sqlstate) ==
    IF sqlstate = None THEN "None" ELSE "DatabaseError"

\* The root of the hierarchy instead of the database branch.
class_for_state_root(sqlstate) == "Error"

class_for_state(sqlstate) == "DatabaseError"

\* The severity passed along with the message.
error_from_result_verbose(res) ==
    LET c == class_for_state(error_field_SQLSTATE(res))
    IN  Call(c, <<res.severity, error_message(res)>>, None)

\* The message field dereferenced without a check for None.
error_from_result_unchecked(res) ==
    LET c == class_for_state(error_field_SQLSTATE(res))
    IN  IF res.message_primary = None
        THEN [raised |-> TRUE,
              value |-> Exception__init__("AttributeError", <<>>)]
        ELSE Call(c, <<The(res.message_primary)>>, None)

error_from_result(res) ==
    LET c == class_for_state(error_field_SQLSTATE(res))
    IN  Call(c, <<error_message(res)>>, None)

\* ---------------------------------------------------------- state machine
Init ==
    /\ result \in PGresults
    /\ cls = None
    /\ exc = None

\* The caller classifies the SQLSTATE of its result.
ClassForState ==
    /\ cls' = Some(class_for_state(error_field_SQLSTATE(result)))
    /\ UNCHANGED <<result, exc>>

\* The caller builds the exception for its result.
ErrorFromResult ==
    /\ exc' = Some(error_from_result(result))
    /\ UNCHANGED <<result, cls>>

Next == ClassForState \/ ErrorFromResult

Spec == Init /\ [][Next]_vars

\* ------------------------------------------------------------ vocabulary
\* sqlstate[:2], the class of a code.
StateClass(s) == SubSeq(s, 1, 2)

\* The class-level table of the design: SQLSTATE class -> category.
SpecClassTable ==
    [k \in { <<"2", "2">>, <<"2", "3">>, <<"4", "2">>, <<"0", "8">>,
             <<"0", "A">>, <<"4", "0">> } |->
        CASE k = <<"2", "2">> -> "DataError"
          [] k = <<"2", "3">> -> "IntegrityError"
          [] k = <<"4", "2">> -> "ProgrammingError"
          [] k = <<"0", "8">> -> "OperationalError"
          [] k = <<"0", "A">> -> "NotSupportedError"
          [] k = <<"4", "0">> -> "OperationalError"]

WarningClass == <<"0", "1">>

Classified == cls # None

Built == exc # None

HasCode == result.sqlstate # None

Code == The(result.sqlstate)

\* ------------------------------------------------------------------- C1
\* C1: the error error_from_result returns has the result it was built from
\* as its pgresult attribute, never None.
C1_DiagnosticAttached ==
    Built =>
        /\ ~The(exc).raised
        /\ "pgresult" \in DOMAIN The(exc).value.dict
        /\ The(exc).value.dict.pgresult = Some(result)

\* ------------------------------------------------------------------- C2
\* C2: class_for_state is total: for every five-character code and for the
\* absent code it returns one class of the taxonomy.
C2_Total == Classified => The(cls) \in Classes

C2_Witness == Classified /\ ~HasCode /\ The(cls) \in Classes

\* ------------------------------------------------------------------- C3
\* C3: a code whose class is in the class table is classified as the
\* category the table gives for that class.
C3_ClassFallback ==
    (Classified /\ HasCode /\ StateClass(Code) \in DOMAIN SpecClassTable)
        => The(cls) = SpecClassTable[StateClass(Code)]

\* ------------------------------------------------------------------- C5
\* C5: a present code whose class is in no table is classified as
\* DatabaseError.
C5_UnknownDefault ==
    (Classified /\ HasCode
        /\ StateClass(Code) \notin DOMAIN SpecClassTable \cup {WarningClass})
        => The(cls) = "DatabaseError"

C5_Witness ==
    /\ Classified
    /\ result.sqlstate = Some(<<"9", "9", "X", "Y", "Z">>)
    /\ The(cls) = "DatabaseError"

\* ------------------------------------------------------------------- C6
\* C6: every code of class 01 is classified as Warning and the error built
\* for it is a Warning.
C6_WarningClass ==
    /\ (Classified /\ HasCode /\ StateClass(Code) = WarningClass)
            => The(cls) = "Warning"
    /\ (Built /\ HasCode /\ StateClass(Code) = WarningClass)
            => (~The(exc).raised /\ The(exc).value.cls = "Warning")

\* ------------------------------------------------------------------- C7
\* C7: without a code the class is InterfaceError and the error built is an
\* InterfaceError.
C7_AbsentCode ==
    /\ (Classified /\ ~HasCode) => The(cls) = "InterfaceError"
    /\ (Built /\ ~HasCode)
            => (~The(exc).raised /\ The(exc).value.cls = "InterfaceError")

\* ------------------------------------------------------------------- C8
\* C8: the argument tuple of the error built is the primary message of the
\* result alone, unaltered.
C8_MessageVerbatim ==
    (Built /\ result.message_primary # None)
        => /\ ~The(exc).raised
           /\ The(exc).value.args = <<The(result.message_primary)>>

C8_Witness ==
    /\ Built
    /\ result.message_primary = Some("connection pool exhausted")
    /\ result.message_detail # None
    /\ The(exc).value.args = <<"connection pool exhausted">>

\* ------------------------------------------------------------------- C9
\* C9: error_from_result returns an error of the taxonomy for every result,
\* with or without code and message; without a message the text is empty.
C9_AlwaysBuilds ==
    Built =>
        /\ ~The(exc).raised
        /\ The(exc).value.cls \in Classes
        /\ result.message_primary = None
                => The(exc).value.args = <<NoMessageText>>

C9_Witness ==
    /\ Built
    /\ ~HasCode
    /\ result.message_primary = None
    /\ ~The(exc).raised
    /\ The(exc).value.args = <<NoMessageText>>

\* ------------------------------------------------------------------ C10
\* C10: the six database categories are DatabaseErrors, DatabaseError and
\* InterfaceError are Errors, InterfaceError is no DatabaseError, Warning is
\* no Error; what class_for_state returns and what error_from_result builds
\* is an Error.
C10_Nesting ==
    /\ \A c \in {"DataError", "OperationalError", "IntegrityError",
                  "InternalError", "ProgrammingError", "NotSupportedError"} :
            issubclass(c, "DatabaseError")
    /\ issubclass("DatabaseError", "Error")
    /\ issubclass("InterfaceError", "Error")
    /\ ~issubclass("InterfaceError", "DatabaseError")
    /\ ~issubclass("Warning", "Error")
    /\ Classified => issubclass(The(cls), "Error")
    /\ Built => (~The(exc).raised /\ issubclass(The(exc).value.cls, "Error"))

C10_Witness ==
    /\ Classified
    /\ Built
    /\ HasCode
    /\ issubclass(The(cls), "DatabaseError")
    /\ issubclass(The(exc).value.cls, "Error")
====
